---- MODULE Spec2Model ----
(***************************************************************************)
(* State-machine model of the consultation timer engine                    *)
(* (src/src/lib/timer-engine.ts).  Time is in epoch milliseconds, as       *)
(* Date.now() returns it.  Thresholds are held in hundredths (0.6 is 60),  *)
(* and percentComplete as the exact fraction num/den, so that the          *)
(* comparisons of computePhase are exact.                                  *)
(***************************************************************************)
EXTENDS Integers, Sequences, FiniteSets, TLC

\* ---------------------------------------------------------------- bounds
InitialNow == 1300          \* Date.now() when the engine is constructed
MaxNow == 5300              \* the wall clock is not advanced past this
MaxHandles == 4             \* setInterval handles handed out in one run
MaxColourPercent == 120     \* largest percentElapsed given to getTimerColour, in hundredths
MaxSettingMutations == 2    \* updateSetting mutations on their way at one time
MaxPayloads == 3            \* payloads passed to saveConsultationData in one run
MaxWidgetSaves == 1         \* consultations saved from the widget in one run

ClockSteps == {500, 1000}                 \* wall-clock advances, in ms
DurationInputs == {-1, 0, 2, 4}           \* arguments of start()
ThresholdInputs == {<<50, 75>>}                \* arguments of setThresholds()

\* ------------------------------------------------------ program constants
DefaultYellowThreshold == 60
DefaultRedThreshold == 90
DefaultTickIntervalMs == 1000
MsPerSecond == 1000

Null == 0                    \* intervalId === null
NoError == "none"
DurationError == "Duration must be positive"

VARIABLES
    state, totalDurationSeconds, startTime, pauseTime, totalPausedMs,
    intervalId, lastPhase, overtimeFired, yellowThreshold, redThreshold,
    now, timers, nextHandle,
    op, err, ret, events,
    runningMs, overtimeCount,
    \* getTimerColour: the arguments of the call and what it returned
    colourArgs, colour,
    \* settings: the timerSettings row of the backend, the settings prop of
    \* the settings view, and the updateSetting mutations on their way
    timerSettings, settings, settingMutations,
    \* offline queue: the pendingSaves ref, its copy under STORAGE_KEY, the
    \* saveConsultation mutations on their way, the consultations table
    \* and the number of payloads passed to saveConsultationData so far
    pendingSaves, localStorage, saveMutations, consultations, isOffline, passed,
    \* widget and main process
    widgetState, preMinimiseState, consultation, isTimerRunning, isQuitting, app

engineVars == <<state, totalDurationSeconds, startTime, pauseTime,
                totalPausedMs, intervalId, lastPhase, overtimeFired,
                yellowThreshold, redThreshold>>
envVars == <<now, timers, nextHandle>>
obsVars == <<op, err, ret, events>>
histVars == <<runningMs, overtimeCount>>
colourVars == <<colourArgs, colour>>
settingsVars == <<timerSettings, settings, settingMutations>>
syncVars == <<pendingSaves, localStorage, saveMutations, consultations, isOffline,
              passed>>
widgetVars == <<widgetState, preMinimiseState, consultation, isTimerRunning,
                isQuitting, app>>
hostVars == <<colourVars, settingsVars, syncVars, widgetVars>>
vars == <<engineVars, envVars, obsVars, histVars, hostVars>>

Max(a, b) == IF a >= b THEN a ELSE b

\* The engine object together with the host's table of live intervals.
Self == [state |-> state,
         totalDurationSeconds |-> totalDurationSeconds,
         startTime |-> startTime,
         pauseTime |-> pauseTime,
         totalPausedMs |-> totalPausedMs,
         intervalId |-> intervalId,
         lastPhase |-> lastPhase,
         overtimeFired |-> overtimeFired,
         yellowThreshold |-> yellowThreshold,
         redThreshold |-> redThreshold,
         timers |-> timers,
         nextHandle |-> nextHandle]

\* Placeholder where no snapshot is returned or passed.
NoSnapshot == [state |-> "-", totalDurationSeconds |-> 0, elapsedSeconds |-> 0,
               remainingSeconds |-> 0, overtimeSeconds |-> 0,
               pausedDurationSeconds |-> 0,
               percentComplete |-> [num |-> 0, den |-> 1], phase |-> "-"]

\* One delivered callback.  onTick carries remaining, elapsed and pct,
\* onThresholdChange carries phase, onComplete carries snap.
Event(cb, phase, snap) ==
    [cb |-> cb, phase |-> phase,
     remaining |-> snap.remainingSeconds, elapsed |-> snap.elapsedSeconds,
     pct |-> snap.percentComplete, snap |-> snap]

\* computePhase that tests the yellow threshold before the red one.
computePhase_yellowBeforeRed(m, percentComplete) ==
    IF percentComplete.num >= percentComplete.den THEN "overtime"
    ELSE IF percentComplete.num * 100 >= m.yellowThreshold * percentComplete.den THEN "yellow"
    ELSE IF percentComplete.num * 100 >= m.redThreshold * percentComplete.den THEN "red"
    ELSE "green"

computePhase(m, percentComplete) ==
    IF percentComplete.num >= percentComplete.den THEN "overtime"
    ELSE IF percentComplete.num * 100 >= m.redThreshold * percentComplete.den THEN "red"
    ELSE IF percentComplete.num * 100 >= m.yellowThreshold * percentComplete.den THEN "yellow"
    ELSE "green"

\* buildSnapshot with remainingSeconds left unclamped (no Math.max(0, ...)).
buildSnapshot_unclampedRemaining(m, t) ==
    LET pausedMs == IF m.state = "paused" /\ m.pauseTime > 0
                    THEN m.totalPausedMs + (t - m.pauseTime)
                    ELSE m.totalPausedMs
        elapsedMs == IF m.startTime > 0 THEN t - m.startTime - pausedMs ELSE 0
        elapsedSeconds == Max(0, elapsedMs \div MsPerSecond)
        remainingSeconds == m.totalDurationSeconds - elapsedSeconds
        overtimeSeconds == IF elapsedSeconds > m.totalDurationSeconds
                           THEN elapsedSeconds - m.totalDurationSeconds
                           ELSE 0
        percentComplete == IF m.totalDurationSeconds > 0
                           THEN [num |-> elapsedSeconds, den |-> m.totalDurationSeconds]
                           ELSE [num |-> 0, den |-> 1]
    IN [state |-> m.state,
        totalDurationSeconds |-> m.totalDurationSeconds,
        elapsedSeconds |-> elapsedSeconds,
        remainingSeconds |-> remainingSeconds,
        overtimeSeconds |-> overtimeSeconds,
        pausedDurationSeconds |-> pausedMs \div MsPerSecond,
        percentComplete |-> percentComplete,
        phase |-> computePhase(m, percentComplete)]

\* buildSnapshot that leaves the pause in progress out of the paused time.
buildSnapshot_ignoresOngoingPause(m, t) ==
    LET pausedMs == m.totalPausedMs
        elapsedMs == IF m.startTime > 0 THEN t - m.startTime - pausedMs ELSE 0
        elapsedSeconds == Max(0, elapsedMs \div MsPerSecond)
        remainingSeconds == Max(0, m.totalDurationSeconds - elapsedSeconds)
        overtimeSeconds == IF elapsedSeconds > m.totalDurationSeconds
                           THEN elapsedSeconds - m.totalDurationSeconds
                           ELSE 0
        percentComplete == IF m.totalDurationSeconds > 0
                           THEN [num |-> elapsedSeconds, den |-> m.totalDurationSeconds]
                           ELSE [num |-> 0, den |-> 1]
    IN [state |-> m.state,
        totalDurationSeconds |-> m.totalDurationSeconds,
        elapsedSeconds |-> elapsedSeconds,
        remainingSeconds |-> remainingSeconds,
        overtimeSeconds |-> overtimeSeconds,
        pausedDurationSeconds |-> pausedMs \div MsPerSecond,
        percentComplete |-> percentComplete,
        phase |-> computePhase(m, percentComplete)]

buildSnapshot(m, t) ==
    LET pausedMs == IF m.state = "paused" /\ m.pauseTime > 0
                    THEN m.totalPausedMs + (t - m.pauseTime)
                    ELSE m.totalPausedMs
        elapsedMs == IF m.startTime > 0 THEN t - m.startTime - pausedMs ELSE 0
        elapsedSeconds == Max(0, elapsedMs \div MsPerSecond)
        remainingSeconds == Max(0, m.totalDurationSeconds - elapsedSeconds)
        overtimeSeconds == IF elapsedSeconds > m.totalDurationSeconds
                           THEN elapsedSeconds - m.totalDurationSeconds
                           ELSE 0
        percentComplete == IF m.totalDurationSeconds > 0
                           THEN [num |-> elapsedSeconds, den |-> m.totalDurationSeconds]
                           ELSE [num |-> 0, den |-> 1]
    IN [state |-> m.state,
        totalDurationSeconds |-> m.totalDurationSeconds,
        elapsedSeconds |-> elapsedSeconds,
        remainingSeconds |-> remainingSeconds,
        overtimeSeconds |-> overtimeSeconds,
        pausedDurationSeconds |-> pausedMs \div MsPerSecond,
        percentComplete |-> percentComplete,
        phase |-> computePhase(m, percentComplete)]

clearInterval(m) ==
    IF m.intervalId # Null
    THEN [m EXCEPT !.timers = {x \in m.timers : x.id # m.intervalId},
                   !.intervalId = Null]
    ELSE m

cleanup(m) == clearInterval(m)

\* this.intervalId = setInterval(() => this.tick(), this.tickIntervalMs)
setInterval(m, t) ==
    [m EXCEPT !.timers = m.timers \cup {[id |-> m.nextHandle, due |-> t + DefaultTickIntervalMs]},
              !.intervalId = m.nextHandle,
              !.nextHandle = m.nextHandle + 1]

\* Result of a method: the engine after it, the callbacks it delivered in
\* order, the value it returned and the error it raised.
Result(m, evs, r, e) == [m |-> m, events |-> evs, ret |-> r, err |-> e]

\* tick that detects overtime only once elapsed has passed the duration.
tick_overtimeAfterBoundary(m, t) ==
    IF m.state = "idle" \/ m.state = "paused" THEN Result(m, <<>>, NoSnapshot, NoError)
    ELSE
    LET snap == buildSnapshot(m, t)
        fire == snap.overtimeSeconds > 0 /\ ~m.overtimeFired
        m1 == IF fire THEN [m EXCEPT !.overtimeFired = TRUE, !.state = "overtime"]
              ELSE IF snap.overtimeSeconds > 0 THEN [m EXCEPT !.state = "overtime"]
              ELSE m
        ev1 == IF fire THEN <<Event("onOvertime", "-", NoSnapshot)>> ELSE <<>>
        phase == snap.phase
        changed == phase # m1.lastPhase
        m2 == IF changed THEN [m1 EXCEPT !.lastPhase = phase] ELSE m1
        ev2 == IF changed THEN <<Event("onThresholdChange", phase, NoSnapshot)>> ELSE <<>>
        ev3 == <<Event("onTick", "-", snap)>>
    IN Result(m2, ev1 \o ev2 \o ev3, NoSnapshot, NoError)

\* tick that reports the phase change before the overtime entry.
tick_thresholdFirst(m, t) ==
    IF m.state = "idle" \/ m.state = "paused" THEN Result(m, <<>>, NoSnapshot, NoError)
    ELSE
    LET snap == buildSnapshot(m, t)
        phase == snap.phase
        changed == phase # m.lastPhase
        m1 == IF changed THEN [m EXCEPT !.lastPhase = phase] ELSE m
        ev1 == IF changed THEN <<Event("onThresholdChange", phase, NoSnapshot)>> ELSE <<>>
        fire == snap.remainingSeconds <= 0 /\ ~m.overtimeFired
        m2 == IF fire THEN [m1 EXCEPT !.overtimeFired = TRUE, !.state = "overtime"]
              ELSE IF snap.remainingSeconds <= 0 THEN [m1 EXCEPT !.state = "overtime"]
              ELSE m1
        ev2 == IF fire THEN <<Event("onOvertime", "-", NoSnapshot)>> ELSE <<>>
        ev3 == <<Event("onTick", "-", snap)>>
    IN Result(m2, ev1 \o ev2 \o ev3, NoSnapshot, NoError)

\* tick that moves the start instant so that elapsed is a whole number of
\* seconds at every tick (time kept by ticks instead of by the clock).
tick_reanchorsStart(m, t) ==
    IF m.state = "idle" \/ m.state = "paused" THEN Result(m, <<>>, NoSnapshot, NoError)
    ELSE
    LET snap == buildSnapshot(m, t)
        fire == snap.remainingSeconds <= 0 /\ ~m.overtimeFired
        m0 == [m EXCEPT !.startTime = t - m.totalPausedMs - snap.elapsedSeconds * MsPerSecond]
        m1 == IF fire THEN [m0 EXCEPT !.overtimeFired = TRUE, !.state = "overtime"]
              ELSE IF snap.remainingSeconds <= 0 THEN [m0 EXCEPT !.state = "overtime"]
              ELSE m0
        ev1 == IF fire THEN <<Event("onOvertime", "-", NoSnapshot)>> ELSE <<>>
        phase == snap.phase
        changed == phase # m1.lastPhase
        m2 == IF changed THEN [m1 EXCEPT !.lastPhase = phase] ELSE m1
        ev2 == IF changed THEN <<Event("onThresholdChange", phase, NoSnapshot)>> ELSE <<>>
        ev3 == <<Event("onTick", "-", snap)>>
    IN Result(m2, ev1 \o ev2 \o ev3, NoSnapshot, NoError)

\* tick that notifies of overtime but leaves the state running.
tick_keepsRunning(m, t) ==
    IF m.state = "idle" \/ m.state = "paused" THEN Result(m, <<>>, NoSnapshot, NoError)
    ELSE
    LET snap == buildSnapshot(m, t)
        fire == snap.remainingSeconds <= 0 /\ ~m.overtimeFired
        m1 == IF fire THEN [m EXCEPT !.overtimeFired = TRUE] ELSE m
        ev1 == IF fire THEN <<Event("onOvertime", "-", NoSnapshot)>> ELSE <<>>
        phase == snap.phase
        changed == phase # m1.lastPhase
        m2 == IF changed THEN [m1 EXCEPT !.lastPhase = phase] ELSE m1
        ev2 == IF changed THEN <<Event("onThresholdChange", phase, NoSnapshot)>> ELSE <<>>
        ev3 == <<Event("onTick", "-", snap)>>
    IN Result(m2, ev1 \o ev2 \o ev3, NoSnapshot, NoError)

tick(m, t) ==
    IF m.state = "idle" \/ m.state = "paused" THEN Result(m, <<>>, NoSnapshot, NoError)
    ELSE
    LET snap == buildSnapshot(m, t)
        fire == snap.remainingSeconds <= 0 /\ ~m.overtimeFired
        m1 == IF fire THEN [m EXCEPT !.overtimeFired = TRUE, !.state = "overtime"]
              ELSE IF snap.remainingSeconds <= 0 THEN [m EXCEPT !.state = "overtime"]
              ELSE m
        ev1 == IF fire THEN <<Event("onOvertime", "-", NoSnapshot)>> ELSE <<>>
        phase == snap.phase
        changed == phase # m1.lastPhase
        m2 == IF changed THEN [m1 EXCEPT !.lastPhase = phase] ELSE m1
        ev2 == IF changed THEN <<Event("onThresholdChange", phase, NoSnapshot)>> ELSE <<>>
        ev3 == <<Event("onTick", "-", snap)>>
    IN Result(m2, ev1 \o ev2 \o ev3, NoSnapshot, NoError)

\* start that releases the schedule before it validates its argument.
start_cleanupBeforeCheck(m, t, durationSeconds) ==
    IF durationSeconds <= 0 THEN Result(cleanup(m), <<>>, NoSnapshot, DurationError)
    ELSE
    LET m0 == cleanup(m)
        m1 == [m0 EXCEPT !.totalDurationSeconds = durationSeconds,
                         !.startTime = t,
                         !.pauseTime = 0,
                         !.totalPausedMs = 0,
                         !.lastPhase = "green",
                         !.overtimeFired = FALSE,
                         !.state = "running"]
        r == tick(m1, t)
    IN Result(setInterval(r.m, t), r.events, NoSnapshot, NoError)

\* start that does not release the schedule of the session it replaces.
start_noCleanup(m, t, durationSeconds) ==
    IF durationSeconds <= 0 THEN Result(m, <<>>, NoSnapshot, DurationError)
    ELSE
    LET m1 == [m EXCEPT !.totalDurationSeconds = durationSeconds,
                        !.startTime = t,
                        !.pauseTime = 0,
                        !.totalPausedMs = 0,
                        !.lastPhase = "green",
                        !.overtimeFired = FALSE,
                        !.state = "running"]
        r == tick(m1, t)
    IN Result(setInterval(r.m, t), r.events, NoSnapshot, NoError)

\* start that carries the paused time of the previous session over.
start_keepsPausedMs(m, t, durationSeconds) ==
    IF durationSeconds <= 0 THEN Result(m, <<>>, NoSnapshot, DurationError)
    ELSE
    LET m0 == cleanup(m)
        m1 == [m0 EXCEPT !.totalDurationSeconds = durationSeconds,
                         !.startTime = t,
                         !.pauseTime = 0,
                         !.lastPhase = "green",
                         !.overtimeFired = FALSE,
                         !.state = "running"]
        r == tick(m1, t)
    IN Result(setInterval(r.m, t), r.events, NoSnapshot, NoError)

\* start that leaves the first tick to the schedule.
start_noImmediateTick(m, t, durationSeconds) ==
    IF durationSeconds <= 0 THEN Result(m, <<>>, NoSnapshot, DurationError)
    ELSE
    LET m0 == cleanup(m)
        m1 == [m0 EXCEPT !.totalDurationSeconds = durationSeconds,
                         !.startTime = t,
                         !.pauseTime = 0,
                         !.totalPausedMs = 0,
                         !.lastPhase = "green",
                         !.overtimeFired = FALSE,
                         !.state = "running"]
    IN Result(setInterval(m1, t), <<>>, NoSnapshot, NoError)

start(m, t, durationSeconds) ==
    IF durationSeconds <= 0 THEN Result(m, <<>>, NoSnapshot, DurationError)
    ELSE
    LET m0 == cleanup(m)
        m1 == [m0 EXCEPT !.totalDurationSeconds = durationSeconds,
                         !.startTime = t,
                         !.pauseTime = 0,
                         !.totalPausedMs = 0,
                         !.lastPhase = "green",
                         !.overtimeFired = FALSE,
                         !.state = "running"]
        r == tick(m1, t)
    IN Result(setInterval(r.m, t), r.events, NoSnapshot, NoError)

\* pause that leaves the recurring schedule in place.
pause_keepsInterval(m, t) ==
    IF m.state # "running" /\ m.state # "overtime" THEN Result(m, <<>>, NoSnapshot, NoError)
    ELSE Result([m EXCEPT !.pauseTime = t, !.state = "paused"],
                <<>>, NoSnapshot, NoError)

\* pause that does not record the instant of the pause.
pause_noTimestamp(m, t) ==
    IF m.state # "running" /\ m.state # "overtime" THEN Result(m, <<>>, NoSnapshot, NoError)
    ELSE Result(clearInterval([m EXCEPT !.state = "paused"]),
                <<>>, NoSnapshot, NoError)

pause(m, t) ==
    IF m.state # "running" /\ m.state # "overtime" THEN Result(m, <<>>, NoSnapshot, NoError)
    ELSE Result(clearInterval([m EXCEPT !.pauseTime = t, !.state = "paused"]),
                <<>>, NoSnapshot, NoError)

\* resume that adds the pause rounded down to whole seconds.
resume_wholeSecondPause(m, t) ==
    IF m.state # "paused" THEN Result(m, <<>>, NoSnapshot, NoError)
    ELSE
    LET m1 == [m EXCEPT !.totalPausedMs = m.totalPausedMs
                              + ((t - m.pauseTime) \div MsPerSecond) * MsPerSecond,
                        !.pauseTime = 0]
        snap == buildSnapshot(m1, t)
        m2 == [m1 EXCEPT !.state = IF snap.remainingSeconds <= 0 THEN "overtime" ELSE "running"]
        r == tick(m2, t)
    IN Result(setInterval(r.m, t), r.events, NoSnapshot, NoError)

\* resume that clears the overtime one-shot flag, as start does.
resume_resetsOvertimeFired(m, t) ==
    IF m.state # "paused" THEN Result(m, <<>>, NoSnapshot, NoError)
    ELSE
    LET m1 == [m EXCEPT !.totalPausedMs = m.totalPausedMs + (t - m.pauseTime),
                        !.pauseTime = 0,
                        !.overtimeFired = FALSE]
        snap == buildSnapshot(m1, t)
        m2 == [m1 EXCEPT !.state = IF snap.remainingSeconds <= 0 THEN "overtime" ELSE "running"]
        r == tick(m2, t)
    IN Result(setInterval(r.m, t), r.events, NoSnapshot, NoError)

\* resume that forgets the pause it ends instead of adding it to the total.
resume_dropsPause(m, t) ==
    IF m.state # "paused" THEN Result(m, <<>>, NoSnapshot, NoError)
    ELSE
    LET m1 == [m EXCEPT !.pauseTime = 0]
        snap == buildSnapshot(m1, t)
        m2 == [m1 EXCEPT !.state = IF snap.remainingSeconds <= 0 THEN "overtime" ELSE "running"]
        r == tick(m2, t)
    IN Result(setInterval(r.m, t), r.events, NoSnapshot, NoError)

\* resume without the check that the engine is paused.
resume_noGuard(m, t) ==
    LET m1 == [m EXCEPT !.totalPausedMs = m.totalPausedMs + (t - m.pauseTime),
                        !.pauseTime = 0]
        snap == buildSnapshot(m1, t)
        m2 == [m1 EXCEPT !.state = IF snap.remainingSeconds <= 0 THEN "overtime" ELSE "running"]
        r == tick(m2, t)
    IN Result(setInterval(r.m, t), r.events, NoSnapshot, NoError)

\* resume that clears the last-observed phase, as start does.
resume_resetsLastPhase(m, t) ==
    IF m.state # "paused" THEN Result(m, <<>>, NoSnapshot, NoError)
    ELSE
    LET m1 == [m EXCEPT !.totalPausedMs = m.totalPausedMs + (t - m.pauseTime),
                        !.pauseTime = 0,
                        !.lastPhase = "green"]
        snap == buildSnapshot(m1, t)
        m2 == [m1 EXCEPT !.state = IF snap.remainingSeconds <= 0 THEN "overtime" ELSE "running"]
        r == tick(m2, t)
    IN Result(setInterval(r.m, t), r.events, NoSnapshot, NoError)

resume(m, t) ==
    IF m.state # "paused" THEN Result(m, <<>>, NoSnapshot, NoError)
    ELSE
    LET m1 == [m EXCEPT !.totalPausedMs = m.totalPausedMs + (t - m.pauseTime),
                        !.pauseTime = 0]
        snap == buildSnapshot(m1, t)
        m2 == [m1 EXCEPT !.state = IF snap.remainingSeconds <= 0 THEN "overtime" ELSE "running"]
        r == tick(m2, t)
    IN Result(setInterval(r.m, t), r.events, NoSnapshot, NoError)

\* stop that folds the pause in progress but leaves its start instant set.
stop_keepsPauseTime(m, t) ==
    LET m1 == IF m.state = "paused" /\ m.pauseTime > 0
              THEN [m EXCEPT !.totalPausedMs = m.totalPausedMs + (t - m.pauseTime)]
              ELSE m
        snapshot == buildSnapshot(m1, t)
        m2 == [cleanup(m1) EXCEPT !.state = "idle"]
    IN Result(m2, <<Event("onComplete", "-", snapshot)>>, snapshot, NoError)

stop(m, t) ==
    LET m1 == IF m.state = "paused" /\ m.pauseTime > 0
              THEN [m EXCEPT !.totalPausedMs = m.totalPausedMs + (t - m.pauseTime),
                             !.pauseTime = 0]
              ELSE m
        snapshot == buildSnapshot(m1, t)
        m2 == [cleanup(m1) EXCEPT !.state = "idle"]
    IN Result(m2, <<Event("onComplete", "-", snapshot)>>, snapshot, NoError)

\* reset that reports completion the way stop does.
reset_firesOnComplete(m, t) ==
    Result([cleanup(m) EXCEPT !.state = "idle",
                              !.totalDurationSeconds = 0,
                              !.startTime = 0,
                              !.pauseTime = 0,
                              !.totalPausedMs = 0,
                              !.lastPhase = "green",
                              !.overtimeFired = FALSE],
           <<Event("onComplete", "-", buildSnapshot(m, t))>>, NoSnapshot, NoError)

reset(m, t) ==
    Result([cleanup(m) EXCEPT !.state = "idle",
                              !.totalDurationSeconds = 0,
                              !.startTime = 0,
                              !.pauseTime = 0,
                              !.totalPausedMs = 0,
                              !.lastPhase = "green",
                              !.overtimeFired = FALSE],
           <<>>, NoSnapshot, NoError)

\* getSnapshot that performs the running-to-overtime transition itself.
getSnapshot_transitions(m, t) ==
    LET snap == buildSnapshot(m, t)
        m1 == IF m.state = "running" /\ snap.remainingSeconds <= 0
              THEN [m EXCEPT !.state = "overtime"] ELSE m
    IN Result(m1, <<>>, buildSnapshot(m1, t), NoError)

getSnapshot(m, t) == Result(m, <<>>, buildSnapshot(m, t), NoError)

\* setThresholds that also forgets the phase last observed.
setThresholds_resetsLastPhase(m, yellow, red) ==
    Result([m EXCEPT !.yellowThreshold = yellow, !.redThreshold = red,
                     !.lastPhase = "green"],
           <<>>, NoSnapshot, NoError)

setThresholds(m, yellow, red) ==
    Result([m EXCEPT !.yellowThreshold = yellow, !.redThreshold = red],
           <<>>, NoSnapshot, NoError)

\* ----------------------------------------------------------------- steps
CountOf(evs, cb) == Cardinality({i \in DOMAIN evs : evs[i].cb = cb})

\* Store the outcome r of the call named name in the engine.
Store(name, r) ==
    /\ state' = r.m.state
    /\ totalDurationSeconds' = r.m.totalDurationSeconds
    /\ startTime' = r.m.startTime
    /\ pauseTime' = r.m.pauseTime
    /\ totalPausedMs' = r.m.totalPausedMs
    /\ intervalId' = r.m.intervalId
    /\ lastPhase' = r.m.lastPhase
    /\ overtimeFired' = r.m.overtimeFired
    /\ yellowThreshold' = r.m.yellowThreshold
    /\ redThreshold' = r.m.redThreshold
    /\ timers' = r.m.timers
    /\ nextHandle' = r.m.nextHandle
    /\ op' = name
    /\ err' = r.err
    /\ ret' = r.ret
    /\ events' = r.events

\* A call of the engine on its own: nothing around it changes.
Apply(name, r) ==
    /\ Store(name, r)
    /\ UNCHANGED hostVars

\* ------------------------------------------------------ around the engine
NoColour == [background |-> <<>>, text |-> "-"]
NoArgs == [percentElapsed |-> [num |-> 0, den |-> 1],
           yellowThreshold |-> DefaultYellowThreshold,
           redThreshold |-> DefaultRedThreshold]
DEFAULT_SETTINGS == [yellowThreshold |-> DefaultYellowThreshold,
                     redThreshold |-> DefaultRedThreshold]

\* No call of getTimerColour yet.
ColourIdle ==
    /\ colourArgs = NoArgs
    /\ colour = NoColour

\* The settings row as getOrCreateDefaultSettings leaves it, loaded by the
\* view, no edit under way.
SettingsIdle ==
    /\ timerSettings = DEFAULT_SETTINGS
    /\ settings = DEFAULT_SETTINGS
    /\ settingMutations = <<>>

\* Nothing queued, nothing stored, online.
SyncIdle ==
    /\ pendingSaves = <<>>
    /\ localStorage = <<>>
    /\ saveMutations = {}
    /\ consultations = <<>>
    /\ isOffline = FALSE
    /\ passed = 0

\* The widget as useTimer mounts it, the main process as it starts.
WidgetIdle ==
    /\ widgetState = "idle"
    /\ preMinimiseState = "idle"
    /\ consultation = Null
    /\ isTimerRunning = FALSE
    /\ isQuitting = FALSE
    /\ app = "open"

\* new TimerEngine() at InitialNow.
EngineNew ==
    /\ state = "idle"
    /\ totalDurationSeconds = 0
    /\ startTime = 0
    /\ pauseTime = 0
    /\ totalPausedMs = 0
    /\ intervalId = Null
    /\ lastPhase = "green"
    /\ overtimeFired = FALSE
    /\ yellowThreshold = DefaultYellowThreshold
    /\ redThreshold = DefaultRedThreshold
    /\ now = InitialNow
    /\ timers = {}
    /\ nextHandle = 1
    /\ op = "new"
    /\ err = NoError
    /\ ret = NoSnapshot
    /\ events = <<>>
    /\ runningMs = 0
    /\ overtimeCount = 0

Init ==
    /\ EngineNew
    /\ ColourIdle /\ SettingsIdle /\ SyncIdle /\ WidgetIdle

CallStart(d) ==
    /\ nextHandle <= MaxHandles
    /\ LET r == start(Self, now, d) IN
        /\ Apply("start", r)
        /\ runningMs' = IF r.err = NoError THEN 0 ELSE runningMs
        /\ overtimeCount' = IF r.err = NoError THEN CountOf(r.events, "onOvertime")
                            ELSE overtimeCount
    /\ UNCHANGED now

CallPause ==
    /\ Apply("pause", pause(Self, now))
    /\ UNCHANGED <<now, runningMs, overtimeCount>>

CallResume ==
    /\ nextHandle <= MaxHandles
    /\ LET r == resume(Self, now) IN
        /\ Apply("resume", r)
        /\ overtimeCount' = overtimeCount + CountOf(r.events, "onOvertime")
    /\ UNCHANGED <<now, runningMs>>

CallStop ==
    /\ Apply("stop", stop(Self, now))
    /\ UNCHANGED <<now, runningMs, overtimeCount>>

CallReset ==
    /\ Apply("reset", reset(Self, now))
    /\ UNCHANGED <<now, runningMs, overtimeCount>>

CallGetSnapshot ==
    /\ Apply("getSnapshot", getSnapshot(Self, now))
    /\ UNCHANGED <<now, runningMs, overtimeCount>>

CallSetThresholds(y, r) ==
    /\ Apply("setThresholds", setThresholds(Self, y, r))
    /\ UNCHANGED <<now, runningMs, overtimeCount>>

\* A due interval fires: the host re-arms it and runs () => this.tick().
TimerFire ==
    \E x \in timers :
        /\ x.due <= now
        /\ LET armed == [Self EXCEPT !.timers = (timers \ {x}) \cup
                              {[id |-> x.id, due |-> x.due + DefaultTickIntervalMs]}]
               r == tick(armed, now)
           IN /\ Apply("tick", r)
              /\ overtimeCount' = overtimeCount + CountOf(r.events, "onOvertime")
        /\ UNCHANGED <<now, runningMs>>

\* The wall clock moves forward; nothing of the engine runs.
AdvanceClock(delta) ==
    /\ now + delta <= MaxNow
    /\ now' = now + delta
    /\ runningMs' = IF state \in {"running", "overtime"} THEN runningMs + delta ELSE runningMs
    /\ op' = "advance"
    /\ err' = NoError
    /\ ret' = NoSnapshot
    /\ events' = <<>>
    /\ UNCHANGED <<engineVars, timers, nextHandle, overtimeCount, hostVars>>

Next ==
    \/ \E d \in DurationInputs : CallStart(d)
    \/ CallPause
    \/ CallResume
    \/ CallStop
    \/ CallReset
    \/ CallGetSnapshot
    \/ \E th \in ThresholdInputs : CallSetThresholds(th[1], th[2])
    \/ TimerFire
    \/ \E delta \in ClockSteps : AdvanceClock(delta)

Spec == Init /\ [][Next]_vars

TypeOK ==
    /\ state \in {"idle", "running", "paused", "overtime"}
    /\ lastPhase \in {"green", "yellow", "red", "overtime"}
    /\ overtimeFired \in BOOLEAN
    /\ now \in InitialNow..MaxNow
    /\ startTime \in 0..MaxNow
    /\ pauseTime \in 0..MaxNow
    /\ totalPausedMs \in 0..MaxNow
\* ------------------------------------------------------------ properties
Quiesced(st) == st \in {"idle", "paused"}
TickCallbacks == {"onTick", "onThresholdChange", "onOvertime"}
\* The names of the recomputation callbacks in evs, in delivery order.
CallbackNames(evs) == [i \in DOMAIN SelectSeq(evs, LAMBDA e : e.cb \in TickCallbacks)
                          |-> SelectSeq(evs, LAMBDA e : e.cb \in TickCallbacks)[i].cb]
\* The step ran the recomputation: an interval fired, start succeeded or
\* resume was called while paused.
Recomputed ==
    \/ op' = "tick"
    \/ op' = "start" /\ err' = NoError
    \/ op' = "resume" /\ state = "paused"

\* C1: the snapshot stop() returns in a started session has elapsedSeconds
\* equal to floor(R/1000), R being the wall-clock milliseconds spent in
\* running or overtime since start(); one floor, however many pauses.
C1_StopElapsedIsFloorOfRunningMs ==
    [][(op' = "stop" /\ state # "idle")
          => ret'.elapsedSeconds = runningMs' \div MsPerSecond]_vars

\* C1 witness: stop() after a pause that was not a whole number of seconds,
\* with a running time that is not a whole number of seconds either.
C1_Witness ==
    /\ op = "stop"
    /\ ret.elapsedSeconds >= 1
    /\ totalPausedMs % MsPerSecond # 0
    /\ runningMs % MsPerSecond # 0
    /\ ret.elapsedSeconds = runningMs \div MsPerSecond

SnapshotConsistent(s) ==
    /\ s.elapsedSeconds <= s.totalDurationSeconds
          => /\ s.elapsedSeconds + s.remainingSeconds = s.totalDurationSeconds
             /\ s.overtimeSeconds = 0
    /\ s.elapsedSeconds > s.totalDurationSeconds
          => /\ s.remainingSeconds = 0
             /\ s.overtimeSeconds = s.elapsedSeconds - s.totalDurationSeconds
    /\ s.elapsedSeconds >= 0
    /\ s.remainingSeconds >= 0
    /\ s.overtimeSeconds >= 0
    /\ s.pausedDurationSeconds >= 0

\* The snapshots observable in the current state: what getSnapshot() would
\* return now, what the last call returned, what onComplete was passed.
ProducedSnapshots ==
    {buildSnapshot(Self, now)}
        \cup (IF op \in {"getSnapshot", "stop"} THEN {ret} ELSE {})
        \cup {events[i].snap : i \in {j \in DOMAIN events : events[j].cb = "onComplete"}}

\* C2: every snapshot of a session with a positive duration has
\* elapsed + remaining = total and overtime = 0 while elapsed <= total,
\* remaining = 0 and overtime = elapsed - total beyond it, and no negative
\* elapsed, remaining, overtime or paused seconds.
C2_SnapshotArithmetic ==
    \A s \in ProducedSnapshots :
        s.totalDurationSeconds > 0 => SnapshotConsistent(s)

\* C2 witness: getSnapshot() returned a snapshot past the duration of a
\* session that has also been paused.
C2_Witness ==
    /\ op = "getSnapshot"
    /\ ret.totalDurationSeconds > 0
    /\ ret.overtimeSeconds > 0
    /\ ret.pausedDurationSeconds > 0
    /\ SnapshotConsistent(ret)

\* C3: onOvertime is delivered at most once between two successful start()
\* calls, whatever ticks, pauses, resumes, threshold updates and clock
\* advances happen in between.
C3_OvertimeAtMostOncePerStart == overtimeCount <= 1

\* C3 witness: a session already in overtime was paused and resumed; the
\* resume went back to overtime without a second onOvertime.
C3_Witness ==
    /\ op = "resume"
    /\ state = "overtime"
    /\ overtimeFired
    /\ overtimeCount = 1
    /\ CountOf(events, "onOvertime") = 0
    /\ CountOf(events, "onTick") = 1

\* C4: the first recomputation of a session that sees elapsedSeconds >=
\* totalDurationSeconds puts the engine in overtime and delivers onOvertime
\* in that same recomputation, before its onTick, with remaining = 0.
C4_OvertimeEntryAtBoundary ==
    [][\A i \in DOMAIN events' :
          (/\ Recomputed
           /\ events'[i].cb = "onTick"
           /\ events'[i].elapsed >= totalDurationSeconds'
           /\ (op' = "start" \/ overtimeCount = 0))
          => /\ state' = "overtime"
             /\ events'[i].remaining = 0
             /\ \E j \in 1..(i - 1) : events'[j].cb = "onOvertime"]_vars

\* C4 witness: a scheduled tick at elapsedSeconds = totalDurationSeconds
\* exactly entered overtime and delivered onOvertime.
C4_Witness ==
    /\ op = "tick"
    /\ state = "overtime"
    /\ CountOf(events, "onOvertime") = 1
    /\ \E i \in DOMAIN events :
          /\ events[i].cb = "onTick"
          /\ events[i].elapsed = totalDurationSeconds
          /\ events[i].remaining = 0
\* The callback sequences one recomputation may deliver according to the
\* order threshold-change, overtime, tick.
ThresholdFirstOrders ==
    {<<"onTick">>, <<"onThresholdChange", "onTick">>, <<"onOvertime", "onTick">>,
     <<"onThresholdChange", "onOvertime", "onTick">>}

\* The callback sequences one recomputation may deliver according to the
\* order overtime, threshold-change, tick.
OvertimeFirstOrders ==
    {<<"onTick">>, <<"onThresholdChange", "onTick">>, <<"onOvertime", "onTick">>,
     <<"onOvertime", "onThresholdChange", "onTick">>}

\* C5 as stated: one recomputation delivers at most one onThresholdChange,
\* then at most one onOvertime, then exactly one onTick, in that order.
C5_Original_ThresholdBeforeOvertime ==
    [][Recomputed => CallbackNames(events') \in ThresholdFirstOrders]_vars

\* C5 amended: one recomputation delivers at most one onOvertime, then at
\* most one onThresholdChange, then exactly one onTick, in that order.
C5_OvertimeBeforeThreshold ==
    [][Recomputed => CallbackNames(events') \in OvertimeFirstOrders]_vars

\* C5 witness: the entry into overtime and the phase change to overtime
\* fell in one recomputation, which delivered all three callbacks.
C5_Witness ==
    /\ op \in {"tick", "resume"}
    /\ Len(events) = 3
    /\ events[1].cb = "onOvertime"
    /\ events[2].cb = "onThresholdChange"
    /\ events[2].phase = "overtime"
    /\ events[3].cb = "onTick"

\* C6 as stated: whenever the engine is idle, getSnapshot() returns zero
\* for total, elapsed, remaining, overtime and paused seconds and for
\* percentComplete.
C6_IdleSnapshotAllZero ==
    state = "idle" =>
        LET s == buildSnapshot(Self, now) IN
        /\ s.totalDurationSeconds = 0
        /\ s.elapsedSeconds = 0
        /\ s.remainingSeconds = 0
        /\ s.overtimeSeconds = 0
        /\ s.pausedDurationSeconds = 0
        /\ s.percentComplete.num = 0

\* C7: start(d) with d <= 0 raises 'Duration must be positive' and leaves
\* the engine's fields and the host's schedules as they were, delivering
\* no callback.
C7_RejectedStartChangesNothing ==
    [][\A d \in DurationInputs :
          (d <= 0 /\ CallStart(d))
          => /\ err' = DurationError
             /\ UNCHANGED engineVars
             /\ UNCHANGED <<timers, nextHandle>>
             /\ events' = <<>>]_vars

\* C7 witness: start() was rejected while a session was ticking, and the
\* session still has its schedule.
C7_Witness ==
    /\ op = "start"
    /\ err = DurationError
    /\ state \in {"running", "overtime"}
    /\ intervalId # Null
    /\ \E x \in timers : x.id = intervalId

\* C8: while the engine is idle or paused no schedule is outstanding, and
\* nothing but start() or resume() delivers onTick, onThresholdChange or
\* onOvertime from such a state.
C8_NoCallbackWhileQuiesced ==
    [][/\ Quiesced(state') => (timers' = {} /\ intervalId' = Null)
       /\ (Quiesced(state) /\ op' \notin {"start", "resume"})
             => CallbackNames(events') = <<>>]_vars

\* C8 witness: the clock moved a whole tick interval past pause() and the
\* engine is still paused with nothing scheduled.
C8_Witness ==
    /\ state = "paused"
    /\ op = "advance"
    /\ now >= pauseTime + DefaultTickIntervalMs
    /\ timers = {}

C10_CompleteOnStopOnly ==
    [][/\ op' = "reset" => CountOf(events', "onComplete") = 0
       /\ (op' = "stop" /\ state # "idle")
             => /\ Len(events') = 1
                /\ events'[1].cb = "onComplete"
                /\ events'[1].snap = ret'
                /\ state' = "idle"]_vars

\* C10 witness: stop() ended a session that had run for a second or more
\* and delivered its snapshot through onComplete.
C10_Witness ==
    /\ op = "stop"
    /\ state = "idle"
    /\ ret.elapsedSeconds >= 1
    /\ Len(events) = 1
    /\ events[1].cb = "onComplete"
    /\ events[1].snap = ret

\* C11: stop() while paused returns pausedDurationSeconds = floor((paused ms
\* accumulated before + ms of the pause in progress) / 1000), the pause in
\* progress counted once, and elapsedSeconds as it was when pause() was
\* called.
C11_StopWhilePaused ==
    [][(op' = "stop" /\ state = "paused")
          => /\ ret'.pausedDurationSeconds
                    = (totalPausedMs + (now - pauseTime)) \div MsPerSecond
             /\ ret'.elapsedSeconds
                    = Max(0, (pauseTime - startTime - totalPausedMs) \div MsPerSecond)]_vars

\* C11 witness: stop() was called during the second pause of a session, a
\* second or more into paused time, and returned the snapshot of a paused
\* engine.
C11_Witness ==
    /\ op = "stop"
    /\ ret.state = "paused"
    /\ nextHandle >= 3
    /\ ret.pausedDurationSeconds >= 1
    /\ ret.elapsedSeconds >= 1
    /\ totalPausedMs % MsPerSecond # 0

\* What getSnapshot() would return in the current state.
CurrentSnapshot == buildSnapshot(Self, now)

\* The engine and what getSnapshot() would return after the step.
SelfAfter == [state |-> state',
              totalDurationSeconds |-> totalDurationSeconds',
              startTime |-> startTime',
              pauseTime |-> pauseTime',
              totalPausedMs |-> totalPausedMs',
              intervalId |-> intervalId',
              lastPhase |-> lastPhase',
              overtimeFired |-> overtimeFired',
              yellowThreshold |-> yellowThreshold',
              redThreshold |-> redThreshold',
              timers |-> timers',
              nextHandle |-> nextHandle']
SnapshotAfter == buildSnapshot(SelfAfter, now')

\* C12: from pause() on and for as long as the engine stays paused, the
\* snapshot keeps the elapsed, remaining and overtime seconds and the
\* percentComplete it had when pause() was called, while
\* pausedDurationSeconds follows the wall clock.
C12_FrozenWhilePaused ==
    [][(state' = "paused" /\ state \in {"running", "overtime", "paused"})
          => LET before == CurrentSnapshot
                 after == SnapshotAfter
             IN /\ after.elapsedSeconds = before.elapsedSeconds
                /\ after.remainingSeconds = before.remainingSeconds
                /\ after.overtimeSeconds = before.overtimeSeconds
                /\ after.percentComplete = before.percentComplete
                /\ after.pausedDurationSeconds >= before.pausedDurationSeconds
                /\ after.pausedDurationSeconds
                       = (totalPausedMs' + (now' - pauseTime')) \div MsPerSecond]_vars

\* C12 witness: getSnapshot() was called a second or more into a pause of a
\* session that had run for a second or more and had time remaining.
C12_Witness ==
    /\ state = "paused"
    /\ op = "getSnapshot"
    /\ now >= pauseTime + MsPerSecond
    /\ ret.pausedDurationSeconds >= 1
    /\ ret.elapsedSeconds >= 1
    /\ ret.remainingSeconds >= 1

\* C13: within a session pausedDurationSeconds never decreases from one
\* snapshot to the next, it differs only across wall-clock time spent
\* paused, and resume() and stop() report the value the snapshot had just
\* before they folded the pause into the total.
C13_PausedSecondsMonotonic ==
    [][(op' # "reset" /\ ~(op' = "start" /\ err' = NoError))
          => LET before == CurrentSnapshot.pausedDurationSeconds
                 after == SnapshotAfter.pausedDurationSeconds
             IN /\ after >= before
                /\ after # before => (state = "paused" /\ op' = "advance")
                /\ op' = "stop" => ret'.pausedDurationSeconds = before]_vars

\* C13 witness: resume() ended a pause of a second or more and the snapshot
\* still shows that paused time.
C13_Witness ==
    /\ op = "resume"
    /\ state \in {"running", "overtime"}
    /\ totalPausedMs >= MsPerSecond
    /\ CurrentSnapshot.pausedDurationSeconds = totalPausedMs \div MsPerSecond

C15_StartReinitialises ==
    [][\A d \in DurationInputs :
          (d > 0 /\ CallStart(d))
          => LET after == SnapshotAfter
             IN /\ err' = NoError
                /\ state' = "running"
                /\ after.totalDurationSeconds = d
                /\ after.elapsedSeconds = 0
                /\ after.remainingSeconds = d
                /\ after.overtimeSeconds = 0
                /\ after.pausedDurationSeconds = 0
                /\ after.phase = "green"
                /\ lastPhase' = "green"
                /\ overtimeFired' = FALSE
                /\ startTime' = now
                /\ pauseTime' = 0
                /\ totalPausedMs' = 0
                /\ timers' = {[id |-> intervalId', due |-> now + DefaultTickIntervalMs]}
                /\ intervalId' = nextHandle]_vars

\* C15 witness: start() succeeded at a later instant in an engine that has
\* already been started and resumed before.
C15_Witness ==
    /\ op = "start"
    /\ err = NoError
    /\ state = "running"
    /\ now > InitialNow
    /\ nextHandle >= 4
    /\ CurrentSnapshot.elapsedSeconds = 0
    /\ CurrentSnapshot.pausedDurationSeconds = 0

\* C16: pause() while idle or paused and resume() while idle, running or
\* overtime change no field of the engine and no schedule and deliver no
\* callback.
C16_NoOpCalls ==
    [][(\/ op' = "pause" /\ state \in {"idle", "paused"}
        \/ op' = "resume" /\ state \in {"idle", "running", "overtime"})
          => /\ UNCHANGED engineVars
             /\ UNCHANGED <<timers, nextHandle>>
             /\ events' = <<>>]_vars

\* C16 witness: resume() was called on a running engine, which delivered
\* nothing and still has its single schedule.
C16_Witness ==
    /\ op = "resume"
    /\ state = "running"
    /\ events = <<>>
    /\ totalPausedMs = 0
    /\ now > startTime
    /\ Cardinality(timers) = 1

Phases == {"green", "yellow", "red", "overtime"}

\* The time values a snapshot reports.
TimeFields(s) == <<s.elapsedSeconds, s.remainingSeconds, s.overtimeSeconds,
                   s.pausedDurationSeconds>>

\* The engines that differ from m only in what a recomputation may change:
\* running against overtime, the overtime flag and the last phase.
TickVariants(m) ==
    {[m EXCEPT !.state = st, !.overtimeFired = f, !.lastPhase = p] :
        st \in (IF m.state \in {"running", "overtime"}
                THEN {"running", "overtime"} ELSE {m.state}),
        f \in BOOLEAN, p \in Phases}

\* m with what a recomputation may change, and the due times of the
\* schedules, erased.
TickBlind(m) ==
    [m EXCEPT !.state = IF m.state \in {"running", "overtime"} THEN "ticking" ELSE m.state,
              !.overtimeFired = FALSE,
              !.lastPhase = "green",
              !.timers = {x.id : x \in m.timers}]

\* C17: ticks change no time accounting.  Two runs of the same calls at the
\* same instants differ only by the ticks that fired, so their engines stay
\* equal up to TickBlind: a tick maps an engine to a TickBlind-equal one,
\* every call maps TickBlind-equal engines to TickBlind-equal engines, and
\* TickBlind-equal engines report the same elapsed, remaining, overtime and
\* paused seconds from getSnapshot() and stop().  The condition reads the
\* engine and the clock only, and getSnapshot() can be called in every
\* state without changing either, so it is evaluated where it was called.
C17_TicksChangeNoAccounting ==
    LET times == TimeFields(CurrentSnapshot)
        stopped == stop(Self, now)
        stopTimes == TimeFields(stopped.ret)
        afterStop == TickBlind(stopped.m)
        afterPause == TickBlind(pause(Self, now).m)
        afterResume == TickBlind(resume(Self, now).m)
        afterReset == TickBlind(reset(Self, now).m)
        afterStart == [d \in DurationInputs |-> TickBlind(start(Self, now, d).m)]
        afterSet == [th \in ThresholdInputs |-> TickBlind(setThresholds(Self, th[1], th[2]).m)]
    IN op = "getSnapshot" => \A v \in TickVariants(Self) :
          LET vStopped == stop(v, now)
          IN /\ TickBlind(tick(v, now).m) = TickBlind(v)
             /\ TimeFields(buildSnapshot(v, now)) = times
             /\ TimeFields(vStopped.ret) = stopTimes
             /\ TickBlind(vStopped.m) = afterStop
             /\ TickBlind(pause(v, now).m) = afterPause
             /\ TickBlind(resume(v, now).m) = afterResume
             /\ TickBlind(reset(v, now).m) = afterReset
             /\ \A d \in DurationInputs : TickBlind(start(v, now, d).m) = afterStart[d]
             /\ \A th \in ThresholdInputs :
                   TickBlind(setThresholds(v, th[1], th[2]).m) = afterSet[th]

\* C17 witness: getSnapshot() on an engine whose schedule is more than one
\* interval overdue: ticks were skipped, the state is still running past
\* the duration, and the snapshot reports the elapsed wall-clock seconds.
C17_Witness ==
    /\ op = "getSnapshot"
    /\ ret.state = "running"
    /\ \E x \in timers : x.due + DefaultTickIntervalMs <= now
    /\ ret.elapsedSeconds >= totalDurationSeconds
    /\ ret.elapsedSeconds = (now - startTime - totalPausedMs) \div MsPerSecond

\* C18: a successful start(d) delivers exactly one onTick, with remaining d,
\* elapsed 0 and percent 0; resume() from paused delivers exactly one
\* onTick; a firing of the schedule delivers exactly one onTick and happens
\* only while running or in overtime; no other step delivers onTick.
C18_OnTickSources ==
    [][LET n == CountOf(events', "onTick")
       IN /\ Recomputed => n = 1
          /\ ~Recomputed => n = 0
          /\ (op' = "start" /\ err' = NoError)
                => /\ events'[Len(events')].cb = "onTick"
                   /\ events'[Len(events')].remaining = totalDurationSeconds'
                   /\ events'[Len(events')].elapsed = 0
                   /\ events'[Len(events')].pct.num = 0
          /\ op' = "tick" => state \in {"running", "overtime"}]_vars

\* C18 witness: resume() delivered its one synchronous onTick, a second or
\* more into the session.
C18_Witness ==
    /\ op = "resume"
    /\ CountOf(events, "onTick") = 1
    /\ events[Len(events)].cb = "onTick"
    /\ events[Len(events)].elapsed >= 1
    /\ events[Len(events)].remaining >= 1

\* ------------------------------------- engines constructed with thresholds
\* new TimerEngine({yellowThreshold, redThreshold}) with one of pairs.
InitWithThresholds(pairs) ==
    \E th \in pairs :
        /\ state = "idle"
        /\ totalDurationSeconds = 0
        /\ startTime = 0
        /\ pauseTime = 0
        /\ totalPausedMs = 0
        /\ intervalId = Null
        /\ lastPhase = "green"
        /\ overtimeFired = FALSE
        /\ yellowThreshold = th[1]
        /\ redThreshold = th[2]
        /\ now = InitialNow
        /\ timers = {}
        /\ nextHandle = 1
        /\ op = "new"
        /\ err = NoError
        /\ ret = NoSnapshot
        /\ events = <<>>
        /\ runningMs = 0
        /\ overtimeCount = 0
        /\ ColourIdle /\ SettingsIdle /\ SyncIdle /\ WidgetIdle

\* Ordered thresholds that are never changed after construction.
FixedThresholdPairs == {<<60, 90>>, <<50, 75>>}
InitFixedThresholds == InitWithThresholds(FixedThresholdPairs)

NextFixedThresholds ==
    \/ \E d \in DurationInputs : CallStart(d)
    \/ CallPause
    \/ CallResume
    \/ CallStop
    \/ CallReset
    \/ CallGetSnapshot
    \/ TimerFire
    \/ \E delta \in ClockSteps : AdvanceClock(delta)

SpecFixedThresholds == InitFixedThresholds /\ [][NextFixedThresholds]_vars

\* Thresholds in either order at construction, changed later by
\* setThresholds.
ConstructorThresholdPairs == {<<60, 90>>, <<75, 50>>}
InitAnyThresholds == InitWithThresholds(ConstructorThresholdPairs)

SpecAnyThresholds == InitAnyThresholds /\ [][Next]_vars

Rank(p) == CASE p = "green" -> 0 [] p = "yellow" -> 1 [] p = "red" -> 2 [] p = "overtime" -> 3

\* C19: with ordered thresholds that stay fixed, every phase delivered to
\* onThresholdChange is later in (green, yellow, red, overtime) than the
\* phase last delivered in the session (green at start()), and becomes the
\* phase last delivered; so green is never reported, nothing is reported
\* twice or out of order, and pause/resume does not cause a repeat.
C19_PhasesAdvance ==
    [][/\ \A i \in DOMAIN events' :
             events'[i].cb = "onThresholdChange"
             => /\ Rank(events'[i].phase)
                       > Rank(IF op' = "start" THEN "green" ELSE lastPhase)
                /\ lastPhase' = events'[i].phase
       /\ (CountOf(events', "onThresholdChange") = 0 /\ op' \notin {"start", "reset"})
             => lastPhase' = lastPhase
       /\ (op' = "start" /\ err' = NoError) => lastPhase' = "green"]_vars

\* C19 witness: red was reported in a session that had been paused and
\* resumed before.
C19_Witness ==
    /\ op \in {"tick", "resume"}
    /\ totalPausedMs > 0
    /\ lastPhase = "red"
    /\ \E i \in DOMAIN events :
          events[i].cb = "onThresholdChange" /\ events[i].phase = "red"

\* The phase the thresholds in force give to elapsed seconds e of total T.
PhaseOf(e, T) ==
    IF e >= T THEN "overtime"
    ELSE IF e * 100 >= redThreshold * T THEN "red"
    ELSE IF e * 100 >= yellowThreshold * T THEN "yellow"
    ELSE "green"

\* C20: the phase of every snapshot of a started session is overtime if
\* elapsed >= total, else red if elapsed/total >= redThreshold, else yellow
\* if elapsed/total >= yellowThreshold, else green, with the thresholds in
\* force, in either order; with yellowThreshold >= redThreshold no snapshot
\* is yellow.
C20_PhaseByThresholds ==
    \A s \in ProducedSnapshots :
        s.totalDurationSeconds > 0
        => /\ s.phase = PhaseOf(s.elapsedSeconds, s.totalDurationSeconds)
           /\ yellowThreshold >= redThreshold => s.phase # "yellow"

\* C20 witness: thresholds in reverse order, elapsed/total exactly at the
\* red threshold and below the yellow one: the snapshot is red.
C20_Witness ==
    /\ yellowThreshold >= redThreshold
    /\ op = "getSnapshot"
    /\ ret.totalDurationSeconds > 0
    /\ ret.elapsedSeconds * 100 = redThreshold * ret.totalDurationSeconds
    /\ ret.elapsedSeconds * 100 < yellowThreshold * ret.totalDurationSeconds
    /\ ret.phase = "red"

\* C21: setThresholds(y, r) in any engine state fires no callback and
\* changes neither the state, the time counters, the last-observed phase,
\* the overtime flag nor the schedule.  The phase change it causes is
\* reported by the next recomputation only: a firing of the schedule or a
\* resume() from paused delivers onThresholdChange exactly when the phase
\* under the thresholds in force differs from the phase last observed, in
\* either direction, and no other step delivers it.
C21_SetThresholdsDeferred ==
    [][/\ op' = "setThresholds"
            => /\ events' = <<>>
               /\ UNCHANGED <<state, totalDurationSeconds, startTime, pauseTime,
                              totalPausedMs, intervalId, lastPhase, overtimeFired,
                              timers, nextHandle>>
       /\ (op' = "tick" \/ (op' = "resume" /\ state = "paused"))
            => IF SnapshotAfter.phase # lastPhase
               THEN /\ CountOf(events', "onThresholdChange") = 1
                    /\ \E i \in DOMAIN events' :
                          /\ events'[i].cb = "onThresholdChange"
                          /\ events'[i].phase = SnapshotAfter.phase
                    /\ lastPhase' = SnapshotAfter.phase
               ELSE CountOf(events', "onThresholdChange") = 0
       /\ ~Recomputed => CountOf(events', "onThresholdChange") = 0]_vars

\* C21 witness: setThresholds() was called on a running engine whose last
\* reported phase is red; under the new thresholds the phase is yellow, and
\* nothing has been reported yet.
C21_Witness ==
    /\ op = "setThresholds"
    /\ state = "running"
    /\ events = <<>>
    /\ lastPhase = "red"
    /\ CurrentSnapshot.phase = "yellow"
    /\ Cardinality(timers) = 1

\* C22: getSnapshot() is a pure read in every state: it leaves the state
\* (running stays running past the duration), the overtime flag, the last
\* phase, every counter and the schedule as they were, fires no callback
\* and returns the snapshot of the engine as it is; two calls in
\* succession, the wall clock not advanced, return equal snapshots.
C22_GetSnapshotPure ==
    [][op' = "getSnapshot"
         => /\ UNCHANGED <<engineVars, now, timers, nextHandle>>
            /\ events' = <<>>
            /\ err' = NoError
            /\ ret' = CurrentSnapshot
            /\ op = "getSnapshot" => ret' = ret]_vars

\* C22 witness: getSnapshot() on a running engine whose duration has run
\* out and whose overtime transition is still to come.
C22_Witness ==
    /\ op = "getSnapshot"
    /\ ret = CurrentSnapshot
    /\ state = "running"
    /\ ~overtimeFired
    /\ lastPhase # "overtime"
    /\ ret.remainingSeconds = 0
    /\ ret.phase = "overtime"
    /\ intervalId # Null

\* C26 as stated: every snapshot getSnapshot() returns in running or
\* overtime has state overtime exactly when remainingSeconds is 0, and none
\* pairs state running with overtimeSeconds > 0.
C26_Original_OvertimeIffNoRemaining ==
    (op = "getSnapshot" /\ ret.state \in {"running", "overtime"})
        => /\ ret.state = "overtime" <=> ret.remainingSeconds = 0
           /\ ret.state = "running" => ret.overtimeSeconds = 0

\* C26: a snapshot getSnapshot() returns with state overtime has
\* remainingSeconds 0 and elapsedSeconds >= totalDurationSeconds, and the
\* state a recomputation leaves (the tick of start(), of resume() or of the
\* schedule) is overtime exactly when remainingSeconds is 0.  From the
\* instant the duration runs out until that recomputation, getSnapshot()
\* reports running with remainingSeconds 0; onOvertime has then not been
\* delivered yet in the session.
C26_OvertimeSetByRecomputation ==
    [][/\ (op' = "getSnapshot" /\ ret'.state = "overtime")
            => /\ ret'.remainingSeconds = 0
               /\ ret'.elapsedSeconds >= ret'.totalDurationSeconds
       /\ (Recomputed /\ state' \in {"running", "overtime"})
            => (state' = "overtime" <=> SnapshotAfter.remainingSeconds = 0)
       /\ (op' = "getSnapshot" /\ ret'.state = "running" /\ ret'.remainingSeconds = 0)
            => ~overtimeFired']_vars

\* C26 witness: getSnapshot() a full second past the duration and before
\* the tick that enters overtime: running, nothing remaining, overtime
\* seconds counting.
C26_Witness ==
    /\ op = "getSnapshot"
    /\ ret.state = "running"
    /\ ret.remainingSeconds = 0
    /\ ret.overtimeSeconds >= 1
    /\ overtimeCount = 0
    /\ Cardinality(timers) = 1

\* ------------------------------------------------ saving a consultation
\* The payload handleSave and the save-and-quit handler build from the
\* consultation (its target is the duration given to engine.start) and the
\* snapshot engine.stop() returned.
SavePayload(target, snapshot) ==
    [targetDurationSeconds |-> target,
     actualDurationSeconds |-> snapshot.elapsedSeconds,
     pausedDurationSeconds |-> snapshot.pausedDurationSeconds]

\* The row the saveConsultation mutation inserts.
saveConsultation(args) ==
    LET wentOvertime == args.actualDurationSeconds > args.targetDurationSeconds
        overtimeSeconds == IF wentOvertime
                           THEN args.actualDurationSeconds - args.targetDurationSeconds
                           ELSE 0
    IN [targetDurationSeconds |-> args.targetDurationSeconds,
        actualDurationSeconds |-> args.actualDurationSeconds,
        pausedDurationSeconds |-> args.pausedDurationSeconds,
        wentOvertime |-> wentOvertime,
        overtimeSeconds |-> overtimeSeconds,
        status |-> "completed"]

\* C27: the consultation saved from the snapshot stop() returns at the end
\* of a session is stored with wentOvertime = TRUE exactly when the engine
\* entered overtime (onOvertime fired) during the session; so also for a
\* session stopped at elapsedSeconds = totalDurationSeconds.
C27_WentOvertimeIffOvertimeEntered ==
    [][(op' = "stop" /\ state # "idle")
          => (saveConsultation(SavePayload(totalDurationSeconds, ret')).wentOvertime
                 <=> overtimeCount > 0)]_vars

\* ------------------------------------------------------- colour mapper
\* src/src/lib/colour-calculator.ts.  percentElapsed is the exact fraction
\* num/den, as percentComplete above; the thresholds are in hundredths; an
\* interpolation parameter t is a fraction as well.  A colour string is the
\* sequence of its characters.
GREEN == [r |-> 34, g |-> 197, b |-> 94]          \* #22C55E
LIME == [r |-> 132, g |-> 204, b |-> 22]          \* #84CC16
YELLOW == [r |-> 234, g |-> 179, b |-> 8]         \* #EAB308
AMBER == [r |-> 245, g |-> 158, b |-> 11]         \* #F59E0B
RED == [r |-> 239, g |-> 68, b |-> 68]            \* #EF4444
DEEP_RED == [r |-> 220, g |-> 38, b |-> 38]       \* #DC2626

Zero == [num |-> 0, den |-> 1]

\* Math.round of the fraction n/d, d > 0: the nearest integer, a half
\* going up.
MathRound(n, d) == (2 * n + d) \div (2 * d)

\* lerp that truncates where the code rounds.
lerp_truncates(a, b, t) == (a * t.den + (b - a) * t.num) \div t.den

lerp(a, b, t) == MathRound(a * t.den + (b - a) * t.num, t.den)

lerpRGB(a, b, t) == [r |-> lerp(a.r, b.r, t), g |-> lerp(a.g, b.g, t),
                     b |-> lerp(a.b, b.b, t)]

HexDigits == <<"0", "1", "2", "3", "4", "5", "6", "7",
               "8", "9", "a", "b", "c", "d", "e", "f">>

\* n.toString(16)
RECURSIVE toString16(_)
toString16(n) ==
    IF n < 0 THEN <<"-">> \o toString16(-n)
    ELSE IF n < 16 THEN <<HexDigits[n + 1]>>
    ELSE toString16(n \div 16) \o <<HexDigits[(n % 16) + 1]>>

\* s.padStart(2, '0')
padStart2(s) == IF Len(s) < 2 THEN <<"0">> \o s ELSE s

\* toHex that does not pad a channel to two digits.
toHex_unpadded(c) == <<"#">> \o toString16(c.r) \o toString16(c.g) \o toString16(c.b)

toHex(c) ==
    <<"#">> \o padStart2(toString16(c.r)) \o padStart2(toString16(c.g))
            \o padStart2(toString16(c.b))

clamp01(v) ==
    IF v.num > v.den THEN [num |-> 1, den |-> 1]
    ELSE IF v.num < 0 THEN Zero
    ELSE v

\* The RGB value getTimerColour turns into its background.
timerRGB(percentElapsed, yellow, red) ==
    IF percentElapsed.num >= percentElapsed.den THEN DEEP_RED
    ELSE IF percentElapsed.num * 100 <= yellow * percentElapsed.den
    THEN LET t == IF yellow > 0
                  THEN [num |-> percentElapsed.num * 100, den |-> yellow * percentElapsed.den]
                  ELSE Zero
         IN lerpRGB(GREEN, LIME, clamp01(t))
    ELSE IF percentElapsed.num * 100 <= red * percentElapsed.den
    THEN LET range == red - yellow
             t == IF range > 0
                  THEN [num |-> percentElapsed.num * 100 - yellow * percentElapsed.den,
                        den |-> range * percentElapsed.den]
                  ELSE Zero
             clamped == clamp01(t)
         IN IF 2 * clamped.num <= clamped.den
            THEN lerpRGB(LIME, YELLOW, [num |-> 2 * clamped.num, den |-> clamped.den])
            ELSE lerpRGB(YELLOW, AMBER,
                         [num |-> 2 * clamped.num - clamped.den, den |-> clamped.den])
    ELSE LET range == 100 - red
             t == IF range > 0
                  THEN [num |-> percentElapsed.num * 100 - red * percentElapsed.den,
                        den |-> range * percentElapsed.den]
                  ELSE Zero
         IN lerpRGB(AMBER, RED, clamp01(t))

\* getTimerColour whose green band takes percentElapsed itself as t.
getTimerColour_unscaledGreen(percentElapsed, yellow, red) ==
    [background |->
        toHex(IF /\ percentElapsed.num < percentElapsed.den
                 /\ percentElapsed.num * 100 <= yellow * percentElapsed.den
              THEN lerpRGB(GREEN, LIME, clamp01(percentElapsed))
              ELSE timerRGB(percentElapsed, yellow, red)),
     text |-> "#FFFFFF"]

getTimerColour(percentElapsed, yellow, red) ==
    [background |-> toHex(timerRGB(percentElapsed, yellow, red)),
     text |-> "#FFFFFF"]

\* The calls of getTimerColour that are checked: percentElapsed in
\* hundredths up to MaxColourPercent and in sevenths, each threshold from
\* ColourThresholds, in either order.
ColourThresholds == {0, 10, 25, 40, 50, 60, 75, 80, 90, 100}
ColourPercents ==
    {[num |-> n, den |-> 100] : n \in 0..MaxColourPercent}
        \cup {[num |-> n, den |-> 7] : n \in 0..8}
ColourInputs ==
    {[percentElapsed |-> p, yellowThreshold |-> y, redThreshold |-> r] :
        p \in ColourPercents, y \in ColourThresholds, r \in ColourThresholds}

InitColour ==
    /\ EngineNew
    /\ SettingsIdle /\ SyncIdle /\ WidgetIdle
    /\ colourArgs \in ColourInputs
    /\ colour = NoColour

CallGetTimerColour ==
    /\ colour = NoColour
    /\ colour' = getTimerColour(colourArgs.percentElapsed, colourArgs.yellowThreshold,
                                colourArgs.redThreshold)
    /\ UNCHANGED <<colourArgs, engineVars, envVars, obsVars, histVars,
                   settingsVars, syncVars, widgetVars>>

NextColour == CallGetTimerColour

SpecColour == InitColour /\ [][NextColour]_vars

\* The call returned, and its thresholds satisfy 0 < yellow < red < 1.
ColourReturned == colour # NoColour
OrderedThresholds ==
    /\ 0 < colourArgs.yellowThreshold
    /\ colourArgs.yellowThreshold < colourArgs.redThreshold
    /\ colourArgs.redThreshold < 100
\* percentElapsed compared with the threshold th.
PercentAt(th) == colourArgs.percentElapsed.num * 100 = th * colourArgs.percentElapsed.den
PercentUpTo(th) == colourArgs.percentElapsed.num * 100 <= th * colourArgs.percentElapsed.den

LimeHex == <<"#", "8", "4", "c", "c", "1", "6">>
YellowHex == <<"#", "e", "a", "b", "3", "0", "8">>
AmberHex == <<"#", "f", "5", "9", "e", "0", "b">>
DeepRedHex == <<"#", "d", "c", "2", "6", "2", "6">>

\* C23: for thresholds 0 < yellow < red < 1, getTimerColour at
\* percentElapsed = yellowThreshold is exactly #84cc16, which is both the
\* end of the green gradient and the start of the yellow one, and at
\* percentElapsed = redThreshold exactly #f59e0b, the end of the yellow
\* gradient and the start of the red one.
C23_SeamColours ==
    (ColourReturned /\ OrderedThresholds)
        => /\ PercentAt(colourArgs.yellowThreshold)
                => /\ colour.background = LimeHex
                   /\ colour.background = toHex(lerpRGB(GREEN, LIME, [num |-> 1, den |-> 1]))
                   /\ colour.background = toHex(lerpRGB(LIME, YELLOW, Zero))
           /\ PercentAt(colourArgs.redThreshold)
                => /\ colour.background = AmberHex
                   /\ colour.background = toHex(lerpRGB(YELLOW, AMBER, [num |-> 1, den |-> 1]))
                   /\ colour.background = toHex(lerpRGB(AMBER, RED, Zero))

\* C23 witness: the custom red threshold 0.8 of the tests, percentElapsed
\* on it, amber returned.
C23_Witness ==
    /\ ColourReturned
    /\ colourArgs.yellowThreshold = 60
    /\ colourArgs.redThreshold = 80
    /\ PercentAt(80)
    /\ colour.background = AmberHex

\* The channels a colour string spells: two hex digits each after the '#'.
HexValue(ch) == CHOOSE v \in 0..15 : HexDigits[v + 1] = ch
Channels(background) ==
    [r |-> 16 * HexValue(background[2]) + HexValue(background[3]),
     g |-> 16 * HexValue(background[4]) + HexValue(background[5]),
     b |-> 16 * HexValue(background[6]) + HexValue(background[7])]

Abs(x) == IF x < 0 THEN -x ELSE x
\* v is an integer nearest to a + (b - a) * n/d.
Nearest(v, a, b, n, d) == 2 * Abs(v * d - (a * d + (b - a) * n)) <= d
\* Every channel of c is the interpolation from a to b at n/d, rounded.
Interpolates(c, a, b, n, d) ==
    /\ Nearest(c.r, a.r, b.r, n, d)
    /\ Nearest(c.g, a.g, b.g, n, d)
    /\ Nearest(c.b, a.b, b.b, n, d)

\* C24: for thresholds 0 < y < r < 1 and percent >= 0, getTimerColour is
\* the piecewise map: #dc2626 from percent 1 on; GREEN to LIME at
\* percent/y up to y; LIME to YELLOW over the first half of (y, r] and
\* YELLOW to AMBER over the second, #eab308 at the middle; AMBER to RED at
\* (percent - r)/(1 - r) above r; every channel interpolated on its own and
\* rounded to a nearest integer.
C24_PiecewiseMap ==
    (ColourReturned /\ OrderedThresholds)
        => LET p == colourArgs.percentElapsed
               y == colourArgs.yellowThreshold
               r == colourArgs.redThreshold
               c == Channels(colour.background)
               \* (percent - y)/(r - y) as un/ud, (percent - r)/(1 - r) as vn/vd
               un == 100 * p.num - y * p.den
               ud == (r - y) * p.den
               vn == 100 * p.num - r * p.den
               vd == (100 - r) * p.den
           IN /\ Len(colour.background) = 7
              /\ IF p.num >= p.den THEN colour.background = DeepRedHex
                 ELSE IF PercentUpTo(y) THEN Interpolates(c, GREEN, LIME, 100 * p.num, y * p.den)
                 ELSE IF PercentUpTo(r)
                 THEN /\ 2 * un <= ud => Interpolates(c, LIME, YELLOW, 2 * un, ud)
                      /\ 2 * un > ud => Interpolates(c, YELLOW, AMBER, 2 * un - ud, ud)
                      /\ 2 * un = ud => colour.background = YellowHex
                 ELSE Interpolates(c, AMBER, RED, vn, vd)

\* C24 witness: the middle of the red band of the default thresholds; the
\* blue channel lies half way between two integers and is rounded.
C24_Witness ==
    /\ ColourReturned
    /\ colourArgs.yellowThreshold = 60
    /\ colourArgs.redThreshold = 90
    /\ PercentAt(95)
    /\ Channels(colour.background) = [r |-> 242, g |-> 113, b |-> 40]

HexDigitSet == {HexDigits[i] : i \in DOMAIN HexDigits}

\* C25: for every percent >= 0 and thresholds anywhere in [0, 1] (both 0,
\* equal, yellow above red), getTimerColour returns, without a division by
\* zero, the text '#FFFFFF' and a background made of '#' and exactly six
\* hex digits, every RGB channel an integer in 0..255.
C25_StructurallyValid ==
    ColourReturned
        => LET rgb == timerRGB(colourArgs.percentElapsed, colourArgs.yellowThreshold,
                               colourArgs.redThreshold)
           IN /\ colour.text = "#FFFFFF"
              /\ Len(colour.background) = 7
              /\ colour.background[1] = "#"
              /\ \A i \in 2..7 : colour.background[i] \in HexDigitSet
              /\ rgb.r \in 0..255 /\ rgb.g \in 0..255 /\ rgb.b \in 0..255
              /\ Channels(colour.background) = rgb

\* C25 witness: the call of the tests with both thresholds 0, which takes
\* the red band with t = 0.5.
C25_Witness ==
    /\ ColourReturned
    /\ colourArgs.yellowThreshold = 0
    /\ colourArgs.redThreshold = 0
    /\ PercentAt(50)
    /\ colour.text = "#FFFFFF"
    /\ Len(colour.background) = 7

\* ------------------------------------------------- threshold settings
\* The settings view edits the thresholds as whole percents, the backend
\* stores them as fractions; both are hundredths here.
Min(a, b) == IF a <= b THEN a ELSE b

\* What the user may have typed into a threshold field.
ThresholdTexts == {"", "5", "50", "80", "95"}
isNaN(text) == text = ""
parseInt(text) ==
    CASE text = "5" -> 5 [] text = "50" -> 50 [] text = "80" -> 80 [] text = "95" -> 95

\* The updateSetting calls commitYellow makes, in order, the view holding
\* the settings prop s and the yellow field holding text.
commitYellow(s, text) ==
    IF isNaN(text) THEN <<>>
    ELSE LET clamped == Max(10, Min(89, parseInt(text)))
             currentRed == s.redThreshold
         IN <<[field |-> "yellowThreshold", value |-> clamped]>>
            \o (IF currentRed <= clamped
                THEN <<[field |-> "redThreshold", value |-> Min(99, clamped + 1)]>>
                ELSE <<>>)

\* The updateSetting call commitRed makes.
commitRed(s, text) ==
    IF isNaN(text) THEN <<>>
    ELSE LET yellowPctNow == s.yellowThreshold
             clamped == Max(yellowPctNow + 1, Min(99, parseInt(text)))
         IN <<[field |-> "redThreshold", value |-> clamped]>>

\* The updateSetting mutation: the row with one field patched.
updateSetting(row, args) == [row EXCEPT ![args.field] = args.value]

CommitYellow(text) ==
    /\ Len(settingMutations) + 2 <= MaxSettingMutations
    /\ settingMutations' = settingMutations \o commitYellow(settings, text)
    /\ UNCHANGED <<timerSettings, settings, engineVars, envVars, obsVars, histVars,
                   colourVars, syncVars, widgetVars>>

CommitRed(text) ==
    /\ Len(settingMutations) + 1 <= MaxSettingMutations
    /\ settingMutations' = settingMutations \o commitRed(settings, text)
    /\ UNCHANGED <<timerSettings, settings, engineVars, envVars, obsVars, histVars,
                   colourVars, syncVars, widgetVars>>

\* The backend runs the oldest mutation on its way.
UpdateSettingRuns ==
    /\ settingMutations # <<>>
    /\ timerSettings' = updateSetting(timerSettings, Head(settingMutations))
    /\ settingMutations' = Tail(settingMutations)
    /\ UNCHANGED <<settings, engineVars, envVars, obsVars, histVars,
                   colourVars, syncVars, widgetVars>>

\* The mutation is rejected; useConvexData.updateSetting swallows the error.
UpdateSettingFails ==
    /\ settingMutations # <<>>
    /\ settingMutations' = Tail(settingMutations)
    /\ UNCHANGED <<timerSettings, settings, engineVars, envVars, obsVars, histVars,
                   colourVars, syncVars, widgetVars>>

\* The getSettings query delivers the row as it is now; useTimer's effect
\* hands the two thresholds to the engine.
SettingsQueryDelivers ==
    /\ settings # timerSettings
    /\ settings' = timerSettings
    /\ Store("setThresholds",
             setThresholds(Self, timerSettings.yellowThreshold, timerSettings.redThreshold))
    /\ UNCHANGED <<timerSettings, settingMutations, now, histVars,
                   colourVars, syncVars, widgetVars>>

NextSettings ==
    \/ \E text \in ThresholdTexts : CommitYellow(text)
    \/ \E text \in ThresholdTexts : CommitRed(text)
    \/ UpdateSettingRuns
    \/ UpdateSettingFails
    \/ SettingsQueryDelivers

SpecSettings == Init /\ [][NextSettings]_vars

\* C30: from stored thresholds with yellow < red, at every moment during
\* and after committed yellow and red edits, between the two writes of
\* commitYellow too, the stored thresholds have 0.10 <= yellow <= 0.89,
\* red <= 0.99 and yellow < red, and the engine is never handed
\* yellow >= red.
C30_StoredThresholdsOrdered ==
    /\ 10 <= timerSettings.yellowThreshold
    /\ timerSettings.yellowThreshold <= 89
    /\ timerSettings.redThreshold <= 99
    /\ timerSettings.yellowThreshold < timerSettings.redThreshold
    /\ yellowThreshold < redThreshold

\* ------------------------------------------------------ offline queue
\* src/src/hooks/useConvexData.ts.  A payload is the number of the call of
\* saveConsultationData that passed it; localStorage holds the array kept
\* under STORAGE_KEY, empty when the key is absent.  A mutation on its way
\* is the payload and the place that sent it.
SaveMutation(p, from) == [payload |-> p, from |-> from]

\* saveConsultationData(payload): the mutation is sent.
SaveConsultationData ==
    /\ app = "open"
    /\ passed < MaxPayloads
    /\ passed' = passed + 1
    /\ saveMutations' = saveMutations \cup {SaveMutation(passed + 1, "save")}
    /\ UNCHANGED <<pendingSaves, localStorage, consultations, isOffline,
                   engineVars, envVars, obsVars, histVars,
                   colourVars, settingsVars, widgetVars>>

\* The backend runs a mutation that reached it: the row is inserted.
SaveMutationSucceeds ==
    \E mu \in saveMutations :
        /\ consultations' = Append(consultations, mu.payload)
        /\ saveMutations' = saveMutations \ {mu}
        /\ UNCHANGED <<pendingSaves, localStorage, isOffline, passed,
                       engineVars, envVars, obsVars, histVars,
                       colourVars, settingsVars, widgetVars>>

\* The mutation is rejected: the catch of saveConsultationData, or of the
\* flush, pushes the payload and rewrites the stored array.
SaveMutationFails ==
    \E mu \in saveMutations :
        /\ app # "closed"
        /\ pendingSaves' = Append(pendingSaves, mu.payload)
        /\ localStorage' = Append(pendingSaves, mu.payload)
        /\ saveMutations' = saveMutations \ {mu}
        /\ UNCHANGED <<consultations, isOffline, passed,
                       engineVars, envVars, obsVars, histVars,
                       colourVars, settingsVars, widgetVars>>

\* The flush effect, run with isOffline false: the queue is taken out of
\* the ref and of localStorage, and a mutation is sent for each payload.
Flush(queue) ==
    IF Len(queue) > 0
    THEN /\ pendingSaves' = <<>>
         /\ localStorage' = <<>>
         /\ saveMutations' = saveMutations
                \cup {SaveMutation(queue[i], "flush") : i \in DOMAIN queue}
    ELSE /\ pendingSaves' = queue
         /\ UNCHANGED <<localStorage, saveMutations>>

\* The queries stay unanswered past the grace period.
ConnectionLost ==
    /\ app = "open"
    /\ ~isOffline
    /\ isOffline' = TRUE
    /\ UNCHANGED <<pendingSaves, localStorage, saveMutations, consultations, passed,
                   engineVars, envVars, obsVars, histVars,
                   colourVars, settingsVars, widgetVars>>

\* The queries answer again: isOffline turns false and the effect runs.
ConnectionRestored ==
    /\ app = "open"
    /\ isOffline
    /\ isOffline' = FALSE
    /\ Flush(pendingSaves)
    /\ UNCHANGED <<consultations, passed,
                   engineVars, envVars, obsVars, histVars,
                   colourVars, settingsVars, widgetVars>>

\* The app is closed: the ref is gone, and so is every mutation that has
\* not reached the backend yet.
AppCloses ==
    /\ app = "open"
    /\ app' = "closed"
    /\ pendingSaves' = <<>>
    /\ saveMutations' \in SUBSET saveMutations
    /\ UNCHANGED <<localStorage, consultations, isOffline, passed,
                   engineVars, envVars, obsVars, histVars,
                   colourVars, settingsVars,
                   widgetState, preMinimiseState, consultation, isTimerRunning, isQuitting>>

\* The app is opened again: the ref is read from localStorage, isOffline
\* starts false and the effect runs on mount.
AppOpens ==
    /\ app = "closed"
    /\ saveMutations = {}
    /\ app' = "open"
    /\ isOffline' = FALSE
    /\ Flush(localStorage)
    /\ UNCHANGED <<consultations, passed,
                   engineVars, envVars, obsVars, histVars,
                   colourVars, settingsVars,
                   widgetState, preMinimiseState, consultation, isTimerRunning, isQuitting>>

NextSync ==
    \/ SaveConsultationData
    \/ SaveMutationSucceeds
    \/ SaveMutationFails
    \/ ConnectionLost
    \/ ConnectionRestored
    \/ AppCloses
    \/ AppOpens

SpecSync == Init /\ [][NextSync]_vars

\* How many rows of the consultations table hold payload p.
StoredCount(p) == Cardinality({i \in DOMAIN consultations : consultations[i] = p})
InLocalStorage(p) == \E i \in DOMAIN localStorage : localStorage[i] = p

\* C29: after any sequence of save failures, reconnects and failed
\* flushes, once no mutation is on its way, every payload passed to
\* saveConsultationData is stored exactly once or is in the localStorage
\* queue, and none is ever stored twice; also when the app was closed
\* while a flush was in flight.
C29_NoPayloadLostOrDuplicated ==
    /\ \A p \in 1..passed : StoredCount(p) <= 1
    /\ saveMutations = {}
          => \A p \in 1..passed : StoredCount(p) = 1 \/ InLocalStorage(p)

\* ------------------------------------------- widget and main process
\* useTimer (src/src/hooks/useTimer.ts), TimerWidget (src/unnamed/part_007)
\* and the close handling of electron/main.ts.  A handler is enabled in the
\* widget states that render its control.  The effect that reports
\* widgetState to the main process runs with the handler that changed it.
SecondsPerMinute == 60
DurationMinutes == {1}                    \* what the setup form starts with

Coloured(ws) == ws \in {"running", "paused", "overtime"}

\* The engine after the call named name returned r; two calls made by one
\* handler are stored as one outcome.
StoreCall(name, r) ==
    /\ Store(name, r)
    /\ runningMs' = IF name = "start" /\ r.err = NoError THEN 0 ELSE runningMs
    /\ overtimeCount' = IF name = "start"
                        THEN (IF r.err = NoError THEN CountOf(r.events, "onOvertime")
                              ELSE overtimeCount)
                        ELSE overtimeCount + CountOf(r.events, "onOvertime")
    /\ UNCHANGED now

\* widgetState set to ws, reported to the main process.
SetWidgetState(ws) ==
    /\ widgetState' = ws
    /\ isTimerRunning' = Coloured(ws)

\* widgetState after the onOvertime and onTick callbacks of outcome r.
AfterCallbacks(ws, r) ==
    IF CountOf(r.events, "onOvertime") > 0 THEN "overtime"
    ELSE IF CountOf(r.events, "onTick") > 0 /\ r.m.state = "overtime" /\ ws = "running"
    THEN "overtime"
    ELSE ws

\* widgetState resume and goBack choose from the snapshot after resume().
StateByRemaining(m, t) ==
    IF buildSnapshot(m, t).remainingSeconds <= 0 THEN "overtime" ELSE "running"

GoToSetup ==
    /\ app = "open" /\ widgetState = "idle"
    /\ SetWidgetState("setup")
    /\ UNCHANGED <<preMinimiseState, consultation, isQuitting, app,
                   engineVars, envVars, obsVars, histVars,
                   colourVars, settingsVars, syncVars>>

CancelSetup ==
    /\ app = "open" /\ widgetState = "setup"
    /\ SetWidgetState("idle")
    /\ UNCHANGED <<preMinimiseState, consultation, isQuitting, app,
                   engineVars, envVars, obsVars, histVars,
                   colourVars, settingsVars, syncVars>>

StartTimer(durationMinutes) ==
    /\ app = "open" /\ widgetState = "setup"
    /\ nextHandle <= MaxHandles
    /\ LET durationSeconds == durationMinutes * SecondsPerMinute IN
        /\ consultation' = durationSeconds
        /\ StoreCall("start", start(Self, now, durationSeconds))
    /\ SetWidgetState("running")
    /\ UNCHANGED <<preMinimiseState, isQuitting, app, colourVars, settingsVars, syncVars>>

WidgetPause ==
    /\ app = "open" /\ widgetState \in {"running", "overtime"}
    /\ StoreCall("pause", pause(Self, now))
    /\ SetWidgetState("paused")
    /\ UNCHANGED <<preMinimiseState, consultation, isQuitting, app,
                   colourVars, settingsVars, syncVars>>

WidgetResume ==
    /\ app = "open" /\ widgetState = "paused"
    /\ nextHandle <= MaxHandles
    /\ LET r == resume(Self, now) IN
        /\ StoreCall("resume", r)
        /\ SetWidgetState(StateByRemaining(r.m, now))
    /\ UNCHANGED <<preMinimiseState, consultation, isQuitting, app,
                   colourVars, settingsVars, syncVars>>

\* Stop of the controls: the engine is paused, the approval screen shown.
WidgetStop ==
    /\ app = "open" /\ Coloured(widgetState)
    /\ StoreCall("pause", pause(Self, now))
    /\ SetWidgetState("approval")
    /\ UNCHANGED <<preMinimiseState, consultation, isQuitting, app,
                   colourVars, settingsVars, syncVars>>

GoBack ==
    /\ app = "open" /\ widgetState = "approval"
    /\ nextHandle <= MaxHandles
    /\ LET r == resume(Self, now) IN
        /\ StoreCall("resume", r)
        /\ SetWidgetState(StateByRemaining(r.m, now))
    /\ UNCHANGED <<preMinimiseState, consultation, isQuitting, app,
                   colourVars, settingsVars, syncVars>>

\* Save of the approval screen: the engine is stopped and the payload built
\* from the consultation and the final snapshot is passed to
\* saveConsultationData.
HandleSave ==
    /\ app = "open" /\ widgetState = "approval"
    /\ passed < MaxWidgetSaves
    /\ StoreCall("stop", stop(Self, now))
    /\ SetWidgetState("idle")
    /\ consultation' = Null
    /\ IF consultation # Null
       THEN /\ passed' = passed + 1
            /\ saveMutations' = saveMutations \cup {SaveMutation(passed + 1, "save")}
       ELSE UNCHANGED <<passed, saveMutations>>
    /\ UNCHANGED <<preMinimiseState, isQuitting, app, pendingSaves, localStorage,
                   consultations, isOffline, colourVars, settingsVars>>

Discard ==
    /\ app = "open" /\ widgetState = "approval"
    /\ StoreCall("reset", reset(Self, now))
    /\ SetWidgetState("idle")
    /\ consultation' = Null
    /\ UNCHANGED <<preMinimiseState, isQuitting, app, colourVars, settingsVars, syncVars>>

Minimise ==
    /\ app = "open" /\ widgetState # "minimised"
    /\ preMinimiseState' = widgetState
    /\ SetWidgetState("minimised")
    /\ UNCHANGED <<consultation, isQuitting, app,
                   engineVars, envVars, obsVars, histVars,
                   colourVars, settingsVars, syncVars>>

RestoreFromMinimised ==
    /\ app = "open" /\ widgetState = "minimised"
    /\ SetWidgetState(preMinimiseState)
    /\ UNCHANGED <<preMinimiseState, consultation, isQuitting, app,
                   engineVars, envVars, obsVars, histVars,
                   colourVars, settingsVars, syncVars>>

\* A due interval fires in the renderer: tick() runs and its callbacks set
\* the widget state.
WidgetTimerFire ==
    \E x \in timers :
        /\ app # "closed"
        /\ x.due <= now
        /\ LET armed == [Self EXCEPT !.timers = (timers \ {x}) \cup
                              {[id |-> x.id, due |-> x.due + DefaultTickIntervalMs]}]
               r == tick(armed, now)
           IN /\ StoreCall("tick", r)
              /\ SetWidgetState(AfterCallbacks(widgetState, r))
        /\ UNCHANGED <<preMinimiseState, consultation, isQuitting, app,
                       colourVars, settingsVars, syncVars>>

\* The renderer goes away with the app: the pendingSaves ref is gone, and
\* so is every mutation that has not reached the backend yet.
Closed ==
    /\ app' = "closed"
    /\ pendingSaves' = <<>>
    /\ saveMutations' \in SUBSET saveMutations

\* The close handler of the main window, reached by app.quit() as well:
\* with isTimerRunning the close is prevented and the confirmation shown.
CloseWindow(running) ==
    IF running
    THEN /\ app' = "confirming"
         /\ UNCHANGED <<pendingSaves, saveMutations>>
    ELSE Closed

\* Quit of the tray menu, Cmd+Q, or closeApp from the title bar.
QuitRequested ==
    /\ app = "open"
    /\ isQuitting' = TRUE
    /\ CloseWindow(isTimerRunning)
    /\ UNCHANGED <<widgetState, preMinimiseState, consultation, isTimerRunning,
                   localStorage, consultations, isOffline, passed,
                   engineVars, envVars, obsVars, histVars, colourVars, settingsVars>>

\* The window's own close button: on macOS, outside a quit, the window is
\* only hidden.
WindowCloseRequested(platform) ==
    /\ app = "open"
    /\ IF ~isQuitting /\ platform = "darwin"
       THEN UNCHANGED <<app, pendingSaves, saveMutations>>
       ELSE CloseWindow(isTimerRunning)
    /\ UNCHANGED <<widgetState, preMinimiseState, consultation, isTimerRunning, isQuitting,
                   localStorage, consultations, isOffline, passed,
                   engineVars, envVars, obsVars, histVars, colourVars, settingsVars>>

\* Save and Quit: the request-save-and-quit handler of the widget up to its
\* await.
ChooseSaveAndQuit ==
    /\ app = "confirming"
    /\ passed < MaxWidgetSaves
    /\ IF Coloured(widgetState)
       THEN LET paused == pause(Self, now)
                stopped == stop(paused.m, now)
            IN /\ StoreCall("stop", Result(stopped.m, paused.events \o stopped.events,
                                           stopped.ret, stopped.err))
               /\ SetWidgetState("idle")
               /\ consultation' = Null
               /\ IF consultation # Null
                  THEN /\ passed' = passed + 1
                       /\ saveMutations' = saveMutations
                              \cup {SaveMutation(passed + 1, "quit")}
                       /\ app' = "saving"
                       /\ UNCHANGED <<pendingSaves, isQuitting>>
                  ELSE /\ isQuitting' = TRUE
                       /\ CloseWindow(FALSE)
                       /\ UNCHANGED passed
       ELSE /\ isQuitting' = TRUE
            /\ CloseWindow(isTimerRunning)
            /\ UNCHANGED <<widgetState, isTimerRunning, consultation, passed,
                           engineVars, envVars, obsVars, histVars>>
    /\ UNCHANGED <<preMinimiseState, localStorage, consultations, isOffline,
                   colourVars, settingsVars>>

\* saveConsultationData has settled: the handler goes on to closeApp().
CloseAfterSave ==
    /\ app = "saving"
    /\ \A mu \in saveMutations : mu.from # "quit"
    /\ isQuitting' = TRUE
    /\ CloseWindow(isTimerRunning)
    /\ UNCHANGED <<widgetState, preMinimiseState, consultation, isTimerRunning,
                   localStorage, consultations, isOffline, passed,
                   engineVars, envVars, obsVars, histVars, colourVars, settingsVars>>

ChooseDiscardAndQuit ==
    /\ app = "confirming"
    /\ isTimerRunning' = FALSE
    /\ isQuitting' = TRUE
    /\ Closed
    /\ UNCHANGED <<widgetState, preMinimiseState, consultation,
                   localStorage, consultations, isOffline, passed,
                   engineVars, envVars, obsVars, histVars, colourVars, settingsVars>>

ChooseCancel ==
    /\ app = "confirming"
    /\ app' = "open"
    /\ UNCHANGED <<widgetState, preMinimiseState, consultation, isTimerRunning, isQuitting,
                   engineVars, envVars, obsVars, histVars,
                   colourVars, settingsVars, syncVars>>

NextWidget ==
    \/ GoToSetup
    \/ CancelSetup
    \/ \E durationMinutes \in DurationMinutes : StartTimer(durationMinutes)
    \/ WidgetPause
    \/ WidgetResume
    \/ WidgetStop
    \/ GoBack
    \/ HandleSave
    \/ Discard
    \/ Minimise
    \/ RestoreFromMinimised
    \/ WidgetTimerFire
    \/ AdvanceClock(DefaultTickIntervalMs)
    \/ SaveMutationSucceeds
    \/ SaveMutationFails
    \/ QuitRequested
    \/ \E platform \in {"darwin", "win32"} : WindowCloseRequested(platform)
    \/ ChooseSaveAndQuit
    \/ CloseAfterSave
    \/ ChooseDiscardAndQuit
    \/ ChooseCancel

SpecWidget == Init /\ [][NextWidget]_vars

\* C28: while a consultation is in progress (the engine is not idle), the
\* widget minimised or on the approval screen included, a quit or close
\* request leads to the close confirmation first, so the app does not close
\* over an in-progress consultation unconfirmed; and when the app closes
\* after Save and Quit, the consultation has been stopped and its payload
\* submitted (stored, or kept in the localStorage queue).
C28_QuitConfirmedWhileInProgress ==
    [][/\ (app = "open" /\ app' # "open" /\ state # "idle") => app' = "confirming"
       /\ (app = "saving" /\ app' = "closed")
            => /\ state' = "idle"
               /\ StoredCount(passed) = 1 \/ InLocalStorage(passed)]_vars
====
